---- MODULE Spec2Model ----
(***************************************************************************)
(* Model of the Player controller of src/components/World/Player.tsx:      *)
(* lane selection, jump physics, the invincibility window and the input    *)
(* handlers, as one state machine.                                         *)
(*                                                                         *)
(* A store change (status, laneCount, hasDoubleJump, isImmortalityActive)  *)
(* is modelled together with the re-render and the effects it schedules.   *)
(* All handlers exist only once the component is mounted, so the refs      *)
(* groupRef.current and bodyRef.current are attached in every state of the *)
(* model; the guards on them in the source are then true.                  *)
(*                                                                         *)
(* Reals are kept exact as scaled integers:                                *)
(*   delta            = k / DeltaDenominator seconds                       *)
(*   velocityY        = velocityY / DeltaDenominator   units per second    *)
(*   positionY        = positionY / DeltaDenominator^2 units               *)
(*   spinRotation, bodyRotationX = value / SpinDenominator radians         *)
(*   position.x       = positionX * LANE_WIDTH / LaneGrid                  *)
(*   now, lastDamageTime in milliseconds.                                  *)
(***************************************************************************)
EXTENDS Integers, Sequences, FiniteSets

VARIABLES
    status,               \* store: GameStatus
    laneCount,            \* store: number of lanes
    hasDoubleJump,        \* store: double jump upgrade
    isImmortalityActive,  \* store: immortality ability running
    lane,                 \* React state, line 44
    isJumping,            \* ref, line 48
    velocityY,            \* ref, line 49 (scaled)
    jumpsPerformed,       \* ref, line 50
    spinRotation,         \* ref, line 51 (scaled)
    touchStartX,          \* ref, line 53
    touchStartY,          \* ref, line 54
    isInvincible,         \* ref, line 56
    lastDamageTime,       \* ref, line 57
    positionX,            \* groupRef.current.position.x (scaled)
    positionY,            \* groupRef.current.position.y (scaled)
    bodyRotationX,        \* bodyRef.current.rotation.x (scaled)
    visible,              \* groupRef.current.visible
    now,                  \* Date.now()
    calls                 \* outbound calls made by the last step, in order

store == <<status, laneCount, hasDoubleJump, isImmortalityActive>>
jumpState == <<isJumping, velocityY, jumpsPerformed, spinRotation, positionY, bodyRotationX>>
touchState == <<touchStartX, touchStartY>>
hitState == <<isInvincible, lastDamageTime, visible>>
vars == <<store, lane, jumpState, touchState, hitState, positionX, now, calls>>

----------------------------------------------------------------------------
(* Bounds of the model *)

MaxLaneCount == 6
MaxNow == 2251
MaxPositionX == 48

----------------------------------------------------------------------------
(* Program constants and the scaling of reals *)

GRAVITY == 50
JUMP_FORCE == 16
INVINCIBLE_MS == 1500
FLICKER_MS == 50
SWIPE_MIN == 30
TAP_MAX == 10
SPIN_RATE == 15
LERP_RATE == 15

DeltaDenominator == 30
SpinDenominator == 2
LaneGrid == 8

\* -2 * Math.PI lies strictly between -13/2 and -12/2 radians; the clamped
\* value itself is represented by the first scaled integer below it.
NEG_TWO_PI == -13

GameStatus == {"MENU", "PLAYING", "SHOP", "GAME_OVER"}
LaneCounts == {0, 2, 3, MaxLaneCount}
Deltas == {0, 3, 6}
ClockSteps == {750, 1501}
Coords == {0, 40}
Keys == {"ArrowLeft", "ArrowRight", "ArrowUp", "w", " ", "Enter", "Escape"}
LaneKeys == {"ArrowLeft", "ArrowRight"}
SnapDeltas == {0, 2}
SmoothDeltas == {0, 1, 2, 3}

----------------------------------------------------------------------------
(* Helpers *)

Max(a, b) == IF a >= b THEN a ELSE b
Min(a, b) == IF a <= b THEN a ELSE b
Abs(a) == IF a < 0 THEN -a ELSE a

\* Math.floor(laneCount / 2)
MaxLaneOf(n) == n \div 2

\* the updater of the lane clamp effect
ClampLane(l, n) == Max(Min(l, MaxLaneOf(n)), -MaxLaneOf(n))

LaneClampEffectMissing(l, n) == l

\* the lane clamp effect, run after every render in which lane or laneCount changed
LaneClampEffect(l, n) == IF Abs(l) > MaxLaneOf(n) THEN ClampLane(l, n) ELSE l

MaxJumps == IF hasDoubleJump THEN 2 ELSE 1

----------------------------------------------------------------------------
Init ==
    /\ status \in GameStatus
    /\ laneCount \in LaneCounts
    /\ hasDoubleJump \in BOOLEAN
    /\ isImmortalityActive \in BOOLEAN
    /\ lane = 0
    /\ isJumping = FALSE
    /\ velocityY = 0
    /\ jumpsPerformed = 0
    /\ spinRotation = 0
    /\ touchStartX = 0
    /\ touchStartY = 0
    /\ isInvincible = FALSE
    /\ lastDamageTime = 0
    /\ positionX = 0
    /\ positionY = 0
    /\ bodyRotationX = 0
    /\ visible = TRUE
    /\ now = 0
    /\ calls = <<>>

----------------------------------------------------------------------------
(* Store changes, each with the render and the effects that follow it *)

ResetEffectKeepsHeight ==
    IF status' = "PLAYING"
    THEN /\ isJumping' = FALSE
         /\ jumpsPerformed' = 0
         /\ velocityY' = 0
         /\ spinRotation' = 0
         /\ bodyRotationX' = 0
         /\ UNCHANGED positionY
    ELSE UNCHANGED jumpState

ResetEffectKeepsVelocity ==
    IF status' = "PLAYING"
    THEN /\ isJumping' = FALSE
         /\ jumpsPerformed' = 0
         /\ spinRotation' = 0
         /\ positionY' = 0
         /\ bodyRotationX' = 0
         /\ UNCHANGED velocityY
    ELSE UNCHANGED jumpState

\* the reset effect (deps [status]) of lines 73-82
ResetEffect ==
    IF status' = "PLAYING"
    THEN /\ isJumping' = FALSE
         /\ jumpsPerformed' = 0
         /\ velocityY' = 0
         /\ spinRotation' = 0
         /\ positionY' = 0
         /\ bodyRotationX' = 0
    ELSE UNCHANGED jumpState

SetStatus(s) ==
    /\ s # status
    /\ status' = s
    /\ ResetEffect
    /\ calls' = <<>>
    /\ UNCHANGED <<laneCount, hasDoubleJump, isImmortalityActive, lane,
                   touchState, hitState, positionX, now>>

SetLaneCount(n) ==
    /\ n # laneCount
    /\ laneCount' = n
    /\ lane' = LaneClampEffect(lane, n)
    /\ calls' = <<>>
    /\ UNCHANGED <<status, hasDoubleJump, isImmortalityActive, jumpState,
                   touchState, hitState, positionX, now>>

SetHasDoubleJump ==
    /\ hasDoubleJump' = ~hasDoubleJump
    /\ calls' = <<>>
    /\ UNCHANGED <<status, laneCount, isImmortalityActive, lane, jumpState,
                   touchState, hitState, positionX, now>>

SetImmortality ==
    /\ isImmortalityActive' = ~isImmortalityActive
    /\ calls' = <<>>
    /\ UNCHANGED <<status, laneCount, hasDoubleJump, lane, jumpState,
                   touchState, hitState, positionX, now>>

----------------------------------------------------------------------------
(* Controls *)

CanDoubleJumpOffByOne == jumpsPerformed <= MaxJumps
CanDoubleJumpUpgraded == jumpsPerformed < 2

\* the second branch of triggerJump is open
CanDoubleJump == jumpsPerformed < MaxJumps

TriggerJumpIgnored(c) ==
    /\ calls' = c
    /\ UNCHANGED jumpState

\* triggerJump, lines 93-109; its calls are appended to those in c
TriggerJump(c) ==
    IF ~isJumping
    THEN /\ calls' = Append(c, "playJump(false)")
         /\ isJumping' = TRUE
         /\ jumpsPerformed' = 1
         /\ velocityY' = JUMP_FORCE * DeltaDenominator
         /\ UNCHANGED <<spinRotation, positionY, bodyRotationX>>
    ELSE IF CanDoubleJump
    THEN /\ calls' = Append(c, "playJump(true)")
         /\ jumpsPerformed' = jumpsPerformed + 1
         /\ velocityY' = JUMP_FORCE * DeltaDenominator
         /\ spinRotation' = 0
         /\ UNCHANGED <<isJumping, positionY, bodyRotationX>>
    ELSE /\ calls' = c
         /\ UNCHANGED jumpState

LaneRightWraps(l, n) == IF l + 1 > MaxLaneOf(n) THEN -MaxLaneOf(n) ELSE l + 1

\* the updaters handed to setLane
LaneLeft(l, n) == Max(l - 1, -MaxLaneOf(n))
LaneRight(l, n) == Min(l + 1, MaxLaneOf(n))

\* setLane(updater) followed by the render and the lane clamp effect
SetLane(l) == lane' = LaneClampEffect(l, laneCount)

InputEnabledAsFrames == status \in {"PLAYING", "SHOP"}

\* the gate at the head of handleKeyDown and handleTouchEnd
InputEnabled == status = "PLAYING"

\* handleKeyDown, lines 112-122
KeyDown(key) ==
    /\ UNCHANGED <<store, touchState, hitState, positionX, now>>
    /\ IF ~InputEnabled
       THEN /\ calls' = <<>>
            /\ UNCHANGED <<lane, jumpState>>
       ELSE IF key = "ArrowLeft"
       THEN /\ SetLane(LaneLeft(lane, laneCount))
            /\ calls' = <<>>
            /\ UNCHANGED jumpState
       ELSE IF key = "ArrowRight"
       THEN /\ SetLane(LaneRight(lane, laneCount))
            /\ calls' = <<>>
            /\ UNCHANGED jumpState
       ELSE IF key \in {"ArrowUp", "w"}
       THEN /\ TriggerJump(<<>>)
            /\ UNCHANGED lane
       ELSE IF key \in {" ", "Enter"}
       THEN /\ calls' = <<"activateImmortality">>
            /\ UNCHANGED <<lane, jumpState>>
       ELSE /\ calls' = <<>>
            /\ UNCHANGED <<lane, jumpState>>

\* handleTouchStart, lines 129-132
TouchStart(x, y) ==
    /\ touchStartX' = x
    /\ touchStartY' = y
    /\ calls' = <<>>
    /\ UNCHANGED <<store, lane, jumpState, hitState, positionX, now>>

\* handleTouchEnd, lines 134-149
TouchEnd(x, y) ==
    LET deltaX == x - touchStartX
        deltaY == y - touchStartY
    IN  /\ UNCHANGED <<store, touchState, hitState, positionX, now>>
        /\ IF ~InputEnabled
           THEN /\ calls' = <<>>
                /\ UNCHANGED <<lane, jumpState>>
           ELSE IF Abs(deltaX) > Abs(deltaY) /\ Abs(deltaX) > SWIPE_MIN
           THEN /\ IF deltaX > 0
                   THEN SetLane(LaneRight(lane, laneCount))
                   ELSE SetLane(LaneLeft(lane, laneCount))
                /\ calls' = <<>>
                /\ UNCHANGED jumpState
           ELSE IF Abs(deltaY) > Abs(deltaX) /\ deltaY < -SWIPE_MIN
           THEN /\ TriggerJump(<<>>)
                /\ UNCHANGED lane
           ELSE IF Abs(deltaX) < TAP_MAX /\ Abs(deltaY) < TAP_MAX
           THEN /\ calls' = <<"activateImmortality">>
                /\ UNCHANGED <<lane, jumpState>>
           ELSE /\ calls' = <<>>
                /\ UNCHANGED <<lane, jumpState>>

----------------------------------------------------------------------------
(* Damage handler *)

HitArmedDespiteImmortality == ~isInvincible
HitArmedDespiteInvincibility == ~isImmortalityActive

\* the guard of checkHit, line 267
HitArmed == ~(isInvincible \/ isImmortalityActive)

\* checkHit, lines 266-272
Hit ==
    /\ IF HitArmed
       THEN /\ calls' = <<"playDamage", "takeDamage">>
            /\ isInvincible' = TRUE
            /\ lastDamageTime' = now
       ELSE /\ calls' = <<>>
            /\ UNCHANGED <<isInvincible, lastDamageTime>>
    /\ UNCHANGED <<store, lane, jumpState, touchState, visible, positionX, now>>

----------------------------------------------------------------------------
(* Animation loop *)

FrameRunsAlways == TRUE
FrameRunsInShopOnly == status = "SHOP"

\* the status gate of useFrame, line 162
FrameRuns == status \in {"PLAYING", "SHOP"}

LandedBelowFloor(y) == y <= -(DeltaDenominator * DeltaDenominator)
LandedStrict(y) == y < 0

\* floor collision test, line 180
Landed(y) == y <= 0

\* the flip accumulator, lines 192-193: one step of delta * 15, held at -2 PI
SpinStep(s, k) ==
    LET step == (k * SPIN_RATE * SpinDenominator) \div DeltaDenominator
    IN  IF s = NEG_TWO_PI \/ s - step <= NEG_TWO_PI
        THEN NEG_TWO_PI
        ELSE s - step

ExpiredAtLimit == now - lastDamageTime >= INVINCIBLE_MS
ExpiredInSeconds == now - lastDamageTime > INVINCIBLE_MS * 1000

\* the expiry test of the invincibility window, line 249
Expired == now - lastDamageTime > INVINCIBLE_MS

\* the flicker square wave, line 253
FlickerOn == (now \div FLICKER_MS) % 2 = 0

PhysicsGravityFirst(k) ==
    IF isJumping
    THEN LET v1 == velocityY - GRAVITY * k
             y1 == positionY + v1 * k
             landed == Landed(y1)
             jumps1 == IF landed THEN 0 ELSE jumpsPerformed
             flip == jumps1 = 2
         IN  /\ positionY' = IF landed THEN 0 ELSE y1
             /\ isJumping' = ~landed
             /\ jumpsPerformed' = jumps1
             /\ velocityY' = IF landed THEN 0 ELSE v1
             /\ spinRotation' = IF flip THEN SpinStep(spinRotation, k) ELSE spinRotation
             /\ bodyRotationX' = IF flip THEN SpinStep(spinRotation, k)
                                 ELSE IF landed THEN 0 ELSE bodyRotationX
    ELSE UNCHANGED jumpState

\* section 2 of useFrame, lines 173-196
Physics(k) ==
    IF isJumping
    THEN LET y1 == positionY + velocityY * k
             v1 == velocityY - GRAVITY * k
             landed == Landed(y1)
             jumps1 == IF landed THEN 0 ELSE jumpsPerformed
             flip == jumps1 = 2
         IN  /\ positionY' = IF landed THEN 0 ELSE y1
             /\ isJumping' = ~landed
             /\ jumpsPerformed' = jumps1
             /\ velocityY' = IF landed THEN 0 ELSE v1
             /\ spinRotation' = IF flip THEN SpinStep(spinRotation, k) ELSE spinRotation
             /\ bodyRotationX' = IF flip THEN SpinStep(spinRotation, k)
                                 ELSE IF landed THEN 0 ELSE bodyRotationX
    ELSE UNCHANGED jumpState

VisibilityEffectFlickerWins ==
    IF isInvincible \/ isImmortalityActive
    THEN /\ isInvincible' = (isInvincible /\ ~Expired)
         /\ visible' = IF isInvincible THEN (IF Expired THEN TRUE ELSE FlickerOn)
                       ELSE TRUE
    ELSE /\ visible' = TRUE
         /\ UNCHANGED isInvincible

VisibilityEffectExpiryKeepsHidden ==
    IF isInvincible \/ isImmortalityActive
    THEN /\ isInvincible' = (isInvincible /\ ~Expired)
         /\ visible' = IF isImmortalityActive THEN TRUE
                       ELSE IF Expired THEN visible ELSE FlickerOn
    ELSE /\ visible' = TRUE
         /\ UNCHANGED isInvincible

\* the invincibility / immortality effect of useFrame, lines 246-261
VisibilityEffect ==
    IF isInvincible \/ isImmortalityActive
    THEN /\ isInvincible' = (isInvincible /\ ~Expired)
         /\ visible' = IF isImmortalityActive THEN TRUE
                       ELSE IF Expired THEN TRUE ELSE FlickerOn
    ELSE /\ visible' = TRUE
         /\ UNCHANGED isInvincible

\* THREE.MathUtils.lerp(x, y, t) with t = delta * 15, as three.js computes
\* it: x + (y - x) * t, with t not clamped to [0, 1]
Lerp(x, y, k) == x + ((y - x) * k * LERP_RATE) \div DeltaDenominator

\* the interpolated value is a point of the grid
LerpExact(x, y, k) == ((y - x) * k * LERP_RATE) % DeltaDenominator = 0

\* section 1 of useFrame, lines 165-170: targetX = lane * LANE_WIDTH
Horizontal(k) == positionX' = Lerp(positionX, lane * LaneGrid, k)

\* the useFrame callback, lines 160-262, with delta = k / DeltaDenominator.
\* The banking, the limb pose and the shadow (rest of section 1, sections 3
\* and 4) write values that nothing else reads; they are not part of the
\* state here.  Frames whose horizontal step leaves the grid or the modelled
\* range are not taken.
Tick(k) ==
    /\ calls' = <<>>
    /\ UNCHANGED <<store, lane, touchState, lastDamageTime, now>>
    /\ IF FrameRuns
       THEN /\ LerpExact(positionX, lane * LaneGrid, k)
            /\ Abs(Lerp(positionX, lane * LaneGrid, k)) <= MaxPositionX
            /\ Horizontal(k)
            /\ Physics(k)
            /\ VisibilityEffect
       ELSE UNCHANGED <<positionX, jumpState, isInvincible, visible>>

\* the wall clock behind Date.now()
ClockAdvance(step) ==
    /\ now + step <= MaxNow
    /\ now' = now + step
    /\ calls' = <<>>
    /\ UNCHANGED <<store, lane, jumpState, touchState, hitState, positionX>>

----------------------------------------------------------------------------
Next ==
    \/ \E s \in GameStatus : SetStatus(s)
    \/ \E n \in LaneCounts : SetLaneCount(n)
    \/ SetHasDoubleJump
    \/ SetImmortality
    \/ \E key \in Keys : KeyDown(key)
    \/ \E x \in Coords, y \in Coords : TouchStart(x, y)
    \/ \E x \in Coords, y \in Coords : TouchEnd(x, y)
    \/ Hit
    \/ \E k \in Deltas : Tick(k)
    \/ \E step \in ClockSteps : ClockAdvance(step)

Spec == Init /\ [][Next]_vars

\* The three parts of the controller read and write disjoint state, apart from
\* the store values they read; each is also specified with only the part of
\* the environment that drives it.

\* controls: store changes and input events, no frames
NextControls ==
    \/ \E s \in GameStatus : SetStatus(s)
    \/ \E n \in LaneCounts : SetLaneCount(n)
    \/ SetHasDoubleJump
    \/ \E key \in Keys : KeyDown(key)
    \/ \E x \in Coords, y \in Coords : TouchStart(x, y)
    \/ \E x \in Coords, y \in Coords : TouchEnd(x, y)

SpecControls == Init /\ [][NextControls]_vars

\* jumping: status and upgrade changes, key input without the lane keys,
\* frames
NextJump ==
    \/ \E s \in GameStatus : SetStatus(s)
    \/ SetHasDoubleJump
    \/ \E key \in Keys \ LaneKeys : KeyDown(key)
    \/ \E k \in Deltas : Tick(k)

SpecJump == Init /\ [][NextJump]_vars

\* damage: hits, frames and the wall clock under status and immortality changes
NextDamage ==
    \/ \E s \in GameStatus : SetStatus(s)
    \/ SetImmortality
    \/ Hit
    \/ \E k \in Deltas : Tick(k)
    \/ \E step \in ClockSteps : ClockAdvance(step)

SpecDamage == Init /\ [][NextDamage]_vars

\* a run: status changes, all keys, frames of 1/15 s
NextRun ==
    \/ \E s \in GameStatus : SetStatus(s)
    \/ \E key \in Keys : KeyDown(key)
    \/ \E k \in SnapDeltas : Tick(k)

SpecRun == Init /\ [][NextRun]_vars

\* horizontal smoothing: lane keys and lane count changes, frames of up to 0.1 s
NextSmoothing ==
    \/ \E n \in LaneCounts : SetLaneCount(n)
    \/ \E key \in LaneKeys : KeyDown(key)
    \/ \E k \in SmoothDeltas : Tick(k)

SpecSmoothing == Init /\ [][NextSmoothing]_vars

\* landing: status and upgrade changes, jump keys, frames; the render loop
\* keeps calling the frame callback, with a delta of at least 0.1 s
NextLanding ==
    \/ \E s \in GameStatus : SetStatus(s)
    \/ SetHasDoubleJump
    \/ \E key \in {"ArrowUp", "w"} : KeyDown(key)
    \/ \E k \in Deltas : Tick(k)

SpecLanding ==
    /\ Init
    /\ [][NextLanding]_vars
    /\ WF_vars(\E k \in Deltas \ {0} : Tick(k))

----------------------------------------------------------------------------
(* Claims *)

\* steps of the handlers, as the claims speak of them
JumpRequest == status = "PLAYING" /\ \E key \in {"ArrowUp", "w"} : KeyDown(key)
FrameExecutes(k) == status \in {"PLAYING", "SHOP"} /\ Tick(k)
AllButCalls == <<store, lane, jumpState, touchState, hitState, positionX, now>>

\* C1: in every reachable state under jump requests, run-status changes and
\* frames with delta >= 0, the vertical position is never below the floor.
C1_FloorInvariant == positionY >= 0

\* a falling character whose next frame would integrate below the floor
C1_Witness ==
    /\ isJumping
    /\ positionY > 0
    /\ \E k \in Deltas : positionY + velocityY * k < 0

\* C2: a jump request while grounded makes the character airborne with
\* velocity 16 and one jump used; while airborne it succeeds (two jumps used,
\* velocity 16, spin 0) exactly when hasDoubleJump holds and one jump is used,
\* and otherwise changes nothing and plays no jump sound.
C2_RequestJump ==
    [][JumpRequest =>
        IF ~isJumping
        THEN /\ isJumping'
             /\ velocityY' = 16 * DeltaDenominator
             /\ jumpsPerformed' = 1
             /\ calls' = <<"playJump(false)">>
        ELSE IF hasDoubleJump /\ jumpsPerformed = 1
        THEN /\ isJumping'
             /\ jumpsPerformed' = 2
             /\ velocityY' = 16 * DeltaDenominator
             /\ spinRotation' = 0
             /\ calls' = <<"playJump(true)">>
        ELSE /\ UNCHANGED AllButCalls
             /\ calls' = <<>>]_vars

\* a double jump has just been made above the ground
C2_Witness ==
    /\ calls = <<"playJump(true)">>
    /\ jumpsPerformed = 2
    /\ spinRotation = 0
    /\ positionY > 0

\* a frame that runs while airborne and integrates to the floor or below
LandingFrame(k) == FrameExecutes(k) /\ isJumping /\ positionY + velocityY * k <= 0

\* C3 as stated: a landing frame ends grounded at height 0 with no jumps used,
\* zero velocity and the spin accumulator at 0.
C3_LandingResetsSpin ==
    [][\A k \in Deltas : LandingFrame(k) =>
        /\ positionY' = 0
        /\ jumpsPerformed' = 0
        /\ velocityY' = 0
        /\ ~isJumping'
        /\ spinRotation' = 0]_vars

\* C3 amended: a landing frame ends grounded at height 0 with no jumps used,
\* zero velocity and the body's flip rotation at 0; the spin accumulator
\* keeps the value it had before the frame.
C3_Landing ==
    [][\A k \in Deltas : LandingFrame(k) =>
        /\ positionY' = 0
        /\ jumpsPerformed' = 0
        /\ velocityY' = 0
        /\ ~isJumping'
        /\ bodyRotationX' = 0
        /\ spinRotation' = spinRotation]_vars

\* grounded again after a double jump whose flip had advanced
C3_Witness ==
    /\ ~isJumping
    /\ positionY = 0
    /\ spinRotation # 0
    /\ bodyRotationX = 0

\* clamp of a lane index to -m .. m
Clamped(l, m) == IF l > m THEN m ELSE IF l < -m THEN -m ELSE l

\* C4: the lane stays within -maxLane .. maxLane, maxLane = floor(laneCount / 2),
\* under lane shifts and laneCount changes; a laneCount change re-clamps an
\* out-of-range lane to the nearest bound in any run status, without input,
\* and laneCount = 0 forces lane 0.
C4_LaneBound ==
    /\ [](/\ -(laneCount \div 2) <= lane
          /\ lane <= laneCount \div 2
          /\ (laneCount = 0 => lane = 0))
    /\ [][laneCount' # laneCount =>
            /\ lane' = Clamped(lane, laneCount' \div 2)
            /\ calls' = <<>>]_vars

\* an outermost lane of the widest track while not playing: any smaller
\* laneCount leaves it out of range, and no input can move it
C4_Witness ==
    /\ status # "PLAYING"
    /\ laneCount = MaxLaneCount
    /\ Abs(lane) = MaxLaneCount \div 2

\* a lane shift by d while playing: an arrow key, or a horizontal swipe
ShiftRequest(d) ==
    /\ status = "PLAYING"
    /\ \/ KeyDown(IF d = 1 THEN "ArrowRight" ELSE "ArrowLeft")
       \/ \E x \in Coords, y \in Coords :
            /\ TouchEnd(x, y)
            /\ Abs(x - touchStartX) > Abs(y - touchStartY)
            /\ Abs(x - touchStartX) > 30
            /\ (d = 1) = (x - touchStartX > 0)

\* C5: a lane shift by d in {-1, +1} while playing sets lane to
\* clamp(lane + d, -maxLane, maxLane): one lane inside the range, nothing at
\* the boundary, no wraparound.
C5_LaneShift ==
    [][\A d \in {-1, 1} : ShiftRequest(d) =>
        lane' = Clamped(lane + d, laneCount \div 2)]_vars

\* the right boundary of a six-lane track while playing, where the shifts stop
C5_Witness ==
    /\ status = "PLAYING"
    /\ laneCount = 6
    /\ lane = 3

\* C6: a hit while immortality is active or the character is already
\* invincible does nothing: no damage, no damage sound, invincibility and
\* its start time unchanged.
C6_SuppressedHit ==
    [][((isImmortalityActive \/ isInvincible) /\ Hit) =>
        /\ calls' = <<>>
        /\ UNCHANGED AllButCalls]_vars

\* invincible for some time already: a hit that re-armed would move the start
C6_Witness ==
    /\ isInvincible
    /\ now > lastDamageTime
    /\ calls = <<>>

\* number of takeDamage calls in a sequence of calls
TakeDamageCalls(c) == Cardinality({i \in DOMAIN c : c[i] = "takeDamage"})

\* C7: an armed hit (immortality inactive, not invincible) applies damage
\* exactly once, sets the invincibility flag and records the current time;
\* a step applies damage exactly when the flag goes from false to true, and
\* never more than once.
C7_ArmedHit ==
    [][/\ (~isImmortalityActive /\ ~isInvincible /\ Hit) =>
            /\ TakeDamageCalls(calls') = 1
            /\ isInvincible'
            /\ lastDamageTime' = now
       /\ TakeDamageCalls(calls') = (IF ~isInvincible /\ isInvincible' THEN 1 ELSE 0)]_vars

\* an armed hit has just been taken, not the first one
C7_Witness ==
    /\ calls = <<"playDamage", "takeDamage">>
    /\ isInvincible
    /\ lastDamageTime = now
    /\ now > 1500

\* C8: a frame that runs while invincible clears invincibility and shows the
\* character when more than 1500 ms have passed since the hit, and leaves
\* invincibility set otherwise.
C8_AutoClear ==
    [][\A k \in Deltas : (FrameExecutes(k) /\ isInvincible) =>
        IF now - lastDamageTime > 1500
        THEN ~isInvincible' /\ visible'
        ELSE isInvincible']_vars

\* invincibility cleared 1501 ms after a hit
C8_Witness ==
    /\ lastDamageTime > 0
    /\ now = lastDamageTime + 1501
    /\ ~isInvincible
    /\ visible

\* the run status becomes "PLAYING"
RunStarts == status # "PLAYING" /\ status' = "PLAYING"

\* C9 as stated: when the run status becomes playing the character is in
\* lane 0, grounded at height 0, with no jumps used, zero velocity and spin 0.
C9_ResetIncludesLane ==
    [][RunStarts =>
        /\ lane' = 0
        /\ ~isJumping'
        /\ jumpsPerformed' = 0
        /\ velocityY' = 0
        /\ positionY' = 0
        /\ spinRotation' = 0]_vars

\* C9 amended: when the run status becomes playing the character is grounded
\* at height 0, with no jumps used, zero velocity and spin 0; the lane keeps
\* the value it had.
C9_Reset ==
    [][RunStarts =>
        /\ lane' = lane
        /\ ~isJumping'
        /\ jumpsPerformed' = 0
        /\ velocityY' = 0
        /\ positionY' = 0
        /\ spinRotation' = 0
        /\ bodyRotationX' = 0]_vars

\* a run stopped in a side lane in the middle of a double jump
C9_Witness ==
    /\ status # "PLAYING"
    /\ lane # 0
    /\ isJumping
    /\ jumpsPerformed = 2
    /\ positionY > 0
    /\ spinRotation # 0

\* C10: a key or touch-end input while the run status is not playing changes
\* no state and makes no outbound call, and the next start of a run changes
\* no lane, starts no jump and makes no call on its account.
C10_InputGating ==
    [][/\ (/\ status # "PLAYING"
           /\ \/ \E key \in Keys : KeyDown(key)
              \/ \E x \in Coords, y \in Coords : TouchEnd(x, y))
          => (calls' = <<>> /\ UNCHANGED AllButCalls)
       /\ RunStarts => (lane' = lane /\ ~isJumping' /\ calls' = <<>>)]_vars

\* not playing, in a state where every input would act were it applied
C10_Witness ==
    /\ status # "PLAYING"
    /\ isJumping
    /\ jumpsPerformed = 1
    /\ hasDoubleJump
    /\ laneCount = MaxLaneCount
    /\ lane = 0
    /\ touchStartX # 0

\* heights and velocities in the model's units
Height(tenths) == (tenths * DeltaDenominator * DeltaDenominator) \div 10
Speed(v) == v * DeltaDenominator

\* a frame of 0.1 s that runs during a first jump at height h with velocity v
TenthFrameFrom(h, v) ==
    /\ FrameExecutes(DeltaDenominator \div 10)
    /\ isJumping
    /\ jumpsPerformed = 1
    /\ positionY = Height(h)
    /\ velocityY = Speed(v)

\* the character is at height h with velocity v after the frame
Reaches(h, v) == isJumping' /\ positionY' = Height(h) /\ velocityY' = Speed(v)

\* C11: a frame that runs while airborne integrates the height with the
\* velocity before the frame, then the velocity with gravity 50, and lands
\* exactly when the integrated height is <= 0; after a jump from the ground,
\* frames of 0.1 s give heights 1.6, 2.7, 3.3, 3.4, 3.0, 2.1 with velocities
\* 11, 6, 1, -4, -9, -14.
C11_Kinematics ==
    [][/\ \A k \in Deltas : (FrameExecutes(k) /\ isJumping) =>
            IF positionY + velocityY * k <= 0
            THEN ~isJumping' /\ positionY' = 0 /\ velocityY' = 0
            ELSE /\ isJumping'
                 /\ positionY' = positionY + velocityY * k
                 /\ velocityY' = velocityY - 50 * k
       /\ (JumpRequest /\ ~isJumping) => (positionY' = 0 /\ velocityY' = Speed(16))
       /\ TenthFrameFrom(0, 16) => Reaches(16, 11)
       /\ TenthFrameFrom(16, 11) => Reaches(27, 6)
       /\ TenthFrameFrom(27, 6) => Reaches(33, 1)
       /\ TenthFrameFrom(33, 1) => Reaches(34, -4)
       /\ TenthFrameFrom(34, -4) => Reaches(30, -9)
       /\ TenthFrameFrom(30, -9) => Reaches(21, -14)]_vars

\* the sixth point of the trajectory of a single jump
C11_Witness ==
    /\ isJumping
    /\ jumpsPerformed = 1
    /\ positionY = Height(21)
    /\ velocityY = Speed(-14)

\* C12 as stated: in every reachable state an invincible character was hit
\* less than 1500 ms ago.
C12_WindowInvariant == isInvincible => now - lastDamageTime < 1500

\* C12 amended: invincibility is cleared only by a frame that runs, and only
\* when more than 1500 ms have passed since the hit; right after a frame that
\* runs, an invincible character was hit at most 1500 ms ago. In between the
\* flag stays set, and a hit is then suppressed.
C12_WindowAfterFrame ==
    [][/\ \A k \in Deltas : (status \in {"PLAYING", "SHOP"} /\ Tick(k)) =>
            (isInvincible' => now' - lastDamageTime' <= 1500)
       /\ (isInvincible /\ ~isInvincible') =>
            /\ status \in {"PLAYING", "SHOP"}
            /\ now - lastDamageTime > 1500
            /\ \E k \in Deltas : Tick(k)
       /\ (isInvincible /\ now - lastDamageTime > 1500 /\ Hit) =>
            (calls' = <<>> /\ isInvincible' /\ lastDamageTime' = lastDamageTime)]_vars

\* the flag is still set after the window while frames run: the next frame
\* must clear it, a hit before that frame is suppressed
C12_Witness ==
    /\ isInvincible
    /\ now - lastDamageTime > 1500
    /\ status \in {"PLAYING", "SHOP"}

\* C15: after every frame that runs while immortality is active the character
\* is visible, also when it is invincible inside the window and the flicker
\* alone would hide it.
C15_ImmortalityWins ==
    [][\A k \in Deltas :
        (status \in {"PLAYING", "SHOP"} /\ isImmortalityActive /\ Tick(k)) => visible']_vars

\* hidden by the flicker, inside the window and in a hidden half period, with
\* immortality now active: the next frame must show the character
C15_Witness ==
    /\ ~visible
    /\ isImmortalityActive
    /\ isInvincible
    /\ now - lastDamageTime <= 1500
    /\ (now \div 50) % 2 = 1
    /\ status \in {"PLAYING", "SHOP"}

\* C16 as stated: the jumps used never exceed the budget of the current
\* hasDoubleJump flag.
C16_BudgetOfCurrentFlag == jumpsPerformed <= (IF hasDoubleJump THEN 2 ELSE 1)

\* C16 amended: the jumps used never exceed 2, and they rise only within the
\* budget of the hasDoubleJump flag at the time of the request.
C16_JumpBudget ==
    /\ [](jumpsPerformed <= 2)
    /\ [][jumpsPerformed' > jumpsPerformed =>
            /\ jumpsPerformed' = jumpsPerformed + 1
            /\ jumpsPerformed' <= (IF hasDoubleJump THEN 2 ELSE 1)
            /\ hasDoubleJump' = hasDoubleJump]_vars

\* two jumps used in the air after the upgrade was withdrawn
C16_Witness ==
    /\ isJumping
    /\ jumpsPerformed = 2
    /\ ~hasDoubleJump
    /\ positionY > 0

\* C17: the jumps used are 0, 1 or 2, they are 0 exactly when the character
\* is grounded, and a grounded character has zero vertical velocity.
C17_JumpConsistency ==
    /\ jumpsPerformed \in {0, 1, 2}
    /\ (jumpsPerformed = 0) <=> ~isJumping
    /\ ~isJumping => velocityY = 0

\* grounded again after a double jump with a completed flip
C17_Witness ==
    /\ ~isJumping
    /\ jumpsPerformed = 0
    /\ velocityY = 0
    /\ spinRotation = NEG_TWO_PI

\* C20: a hidden character is invincible, in every reachable state.
C20_HiddenOnlyWhileInvincible == ~visible => isInvincible

\* hidden after the window while no frame runs: the flag is still set
C20_Witness ==
    /\ ~visible
    /\ now - lastDamageTime > 1500
    /\ status \notin {"PLAYING", "SHOP"}

\* every frame length of the specifications
FrameDeltas == Deltas \cup SnapDeltas \cup SmoothDeltas

\* what the frame callback advances
Advanced ==
    <<positionX, positionY, velocityY, isJumping, jumpsPerformed, spinRotation,
      isInvincible, visible>>

\* C13 as stated: a frame callback under any status other than PLAYING leaves
\* position, velocity, jump state, spin, invincibility and visibility
\* unchanged.
C13_StoppedUnlessPlaying ==
    [][\A k \in FrameDeltas : (status # "PLAYING" /\ Tick(k)) => UNCHANGED Advanced]_vars

\* C13 amended: a frame callback under a status other than PLAYING and SHOP
\* leaves that state unchanged; under SHOP the frame runs as under PLAYING,
\* so an airborne character keeps moving along its trajectory.
C13_Cancellation ==
    [][\A k \in FrameDeltas :
        /\ (status \notin {"PLAYING", "SHOP"} /\ Tick(k)) => UNCHANGED Advanced
        /\ (status = "SHOP" /\ isJumping /\ Tick(k))
              => positionY' = Max(0, positionY + velocityY * k)]_vars

\* frozen in mid-air and short of the lane centre while no frame runs
C13_Witness ==
    /\ status \notin {"PLAYING", "SHOP"}
    /\ isJumping
    /\ positionY > 0
    /\ positionX # lane * LaneGrid

\* an input event handled while PLAYING
InputWhilePlaying == status = "PLAYING" /\ \E key \in Keys : KeyDown(key)

\* C14 as stated: an input event while PLAYING leaves the lane, the airborne
\* flag, the jumps used and the vertical velocity unchanged.
C14_InputOnlyRecordsIntent ==
    [][InputWhilePlaying => UNCHANGED <<lane, isJumping, jumpsPerformed, velocityY>>]_vars

\* C14 amended: the input handlers apply the input in their own step (a jump
\* request while grounded makes the character airborne with velocity 16 and
\* one jump used, a lane key moves the lane by one inside the bound), and a
\* frame never changes the lane, never makes the character airborne, never
\* raises the jumps used and raises the velocity only to 0 on landing.
C14_InputAppliedAtOnce ==
    [][/\ (JumpRequest /\ ~isJumping)
            => (isJumping' /\ jumpsPerformed' = 1 /\ velocityY' = 16 * DeltaDenominator)
       /\ (status = "PLAYING" /\ KeyDown("ArrowRight"))
            => lane' = Min(lane + 1, laneCount \div 2)
       /\ (status = "PLAYING" /\ KeyDown("ArrowLeft"))
            => lane' = Max(lane - 1, -(laneCount \div 2))
       /\ \A k \in FrameDeltas : Tick(k) =>
            /\ lane' = lane
            /\ isJumping' => isJumping
            /\ jumpsPerformed' <= jumpsPerformed
            /\ velocityY' <= velocityY \/ (~isJumping' /\ velocityY' = 0)]_vars

\* a lane shift and then a jump handled with no frame in between
C14_Witness ==
    /\ lane # 0
    /\ positionX = 0
    /\ isJumping
    /\ positionY = 0
    /\ velocityY = 16 * DeltaDenominator
    /\ calls = <<"playJump(false)">>

\* C18: every frame that runs moves positionX by the clamped fraction
\* min(1, 15 * delta) of its offset from the lane centre, so the new value
\* lies between the old one and the lane centre and is no farther from it.
C18_NoOvershoot ==
    [][\A k \in FrameDeltas : FrameExecutes(k) =>
        LET target == lane * LaneGrid
            t == Min(DeltaDenominator, 15 * k)
        IN  /\ positionX' = positionX + ((target - positionX) * t) \div DeltaDenominator
            /\ Min(positionX, target) <= positionX'
            /\ positionX' <= Max(positionX, target)
            /\ Abs(target - positionX') <= Abs(target - positionX)]_vars

\* C19: an airborne character under status PLAYING is eventually grounded
\* again, unless the status leaves PLAYING first, whatever jump requests and
\* changes of hasDoubleJump arrive while frames keep running.
C19_EveryJumpLands ==
    (isJumping /\ status = "PLAYING") ~> (~isJumping \/ status # "PLAYING")

\* falling after the second impulse of an airborne phase
C19_Witness ==
    /\ status = "PLAYING"
    /\ isJumping
    /\ jumpsPerformed = 2
    /\ velocityY < 0
    /\ positionY > 0

====
